---- MODULE Spec2Model ----
(***************************************************************************)
(* A model of src/src/App.tsx: the portfolio page's event handlers (hash   *)
(* navigation, Hero buttons, Spotlight, Magnetic), the effect lifecycle    *)
(* that registers and removes their listeners, the rendering of the static *)
(* skill and project arrays, and the scroll reveals.                       *)
(*                                                                         *)
(* Lengths are whole CSS pixels.  A Magnetic offset is kept in units of    *)
(* 1/200 px, so that 0.15 * (clientX - left - width / 2) is the integer    *)
(* 15 * (2 * clientX - 2 * left - width).                                  *)
(***************************************************************************)
EXTENDS Integers, Sequences, FiniteSets, TLC

VARIABLES
    phase,      \* lifecycle of the App tree: unmounted, mounted, removed
    host,       \* whether the host page has content of its own around the root
    gone,       \* elements of App taken out of the document by something else
    docClick,   \* listeners on document for "click", in registration order
    winMove,    \* listeners on window for "mousemove"
    elMove,     \* per Magnetic: listeners on its element for "mousemove"
    elLeave,    \* per Magnetic: listeners on its element for "mouseleave"
    appFn,      \* the onClick closure App's effect captured (0: none)
    spotFn,     \* the handler closure Spotlight's effect captured
    magFn,      \* per Magnetic: the onMove / onLeave closures its effect captured
    hover,      \* per Magnetic: useState(false)
    x,          \* per Magnetic: useMotionValue(0), in 1/200 px
    y,
    over,       \* the Magnetic the pointer is over (0: none)
    mouseX,     \* Spotlight: useMotionValue(0), in px
    mouseY,
    hash,       \* the URL fragment
    skillsDom,  \* what Skills rendered
    projectsDom,\* what Projects rendered
    scrollPos,  \* first page row above the viewport's top edge
    revealed,   \* per whileInView element: shown (TRUE) or in its initial state
    ev          \* what the most recent event did

vars == <<phase, host, gone, docClick, winMove, elMove, elLeave, appFn, spotFn, magFn,
          hover, x, y, over, mouseX, mouseY, hash, skillsDom, projectsDom,
          scrollPos, revealed, ev>>

Null == 0

(* ---------------------------------------------------------------------- *)
(* The document                                                           *)
(* ---------------------------------------------------------------------- *)

\* An element without attributes.
NoAttrs == [a \in {} |-> ""]

El(tag, parent, attrs) == [tag |-> tag, parent |-> parent, attrs |-> attrs]

\* Content a host page may hold before the React root: an element that
\* repeats an id of the page, and anchors to "#", to an id nothing has and
\* to an id a host element has.
HostNodes ==
    << El("div",  0, [id |-> "about"]),            \* 1
       El("a",    0, [href |-> "#"]),              \* 2
       El("a",    0, [href |-> "#missing"]),       \* 3
       El("span", 3, NoAttrs),                     \* 4
       El("a",    0, [href |-> "#extra"]),         \* 5
       El("div",  0, [id |-> "extra"]) >>          \* 6

NHost == Len(HostNodes)

\* Section rendering its root without the id it was given.
SectionElNoId(id) == El("section", NHost + 1, NoAttrs)

\* Section's root: <section id={id}>, a child of App's root.
SectionEl(id) == El("section", NHost + 1, [id |-> id])

\* The elements App renders that carry an id, an href or a click handler,
\* and the elements inside them, in document order.
AppNodes ==
    << El("div",     0,          NoAttrs),                       \*  7 root
       El("a",       NHost + 1,  [href |-> "#top"]),             \*  8 Nav
       El("a",       NHost + 1,  [href |-> "#about"]),           \*  9
       El("a",       NHost + 1,  [href |-> "#skills"]),          \* 10
       El("a",       NHost + 1,  [href |-> "#experience"]),      \* 11
       El("a",       NHost + 1,  [href |-> "#projects"]),        \* 12
       El("a",       NHost + 1,  [href |-> "#contact"]),         \* 13
       El("div",     NHost + 1,  NoAttrs),                       \* 14 Magnetic
       El("button",  NHost + 8,  NoAttrs),                       \* 15 Contact
       El("div",     NHost + 1,  [id |-> "top"]),                \* 16 Hero
       El("div",     NHost + 10, NoAttrs),                       \* 17 Magnetic
       El("button",  NHost + 11, [onClick |-> "#projects"]),     \* 18
       El("svg",     NHost + 12, NoAttrs),                       \* 19
       El("div",     NHost + 10, NoAttrs),                       \* 20 Magnetic
       El("button",  NHost + 14, [onClick |-> "#contact"]),      \* 21
       SectionEl("about"),                                       \* 22
       SectionEl("skills"),                                      \* 23
       SectionEl("experience"),                                  \* 24
       SectionEl("projects"),                                    \* 25
       SectionEl("contact"),                                     \* 26
       El("div",     NHost + 20, NoAttrs),                       \* 27 Magnetic
       El("a",       NHost + 21, [href |-> "mailto:smit.dhameliya@example.com"]),
       El("svg",     NHost + 22, NoAttrs),                       \* 29
       El("a",       NHost + 20, [href |-> "https://www.linkedin.com/"]),
       El("svg",     NHost + 24, NoAttrs),                       \* 31
       El("a",       NHost + 20, [href |-> "https://github.com/"]),
       El("svg",     NHost + 26, NoAttrs),                       \* 33
       El("a",       NHost + 1,  [href |-> "#top"]) >>           \* 34 Footer

Nodes == HostNodes \o AppNodes

NodeIds == 1..Len(Nodes)

RECURSIVE Present(_)
\* The elements in the document: the host's, and App's while it is mounted,
\* but for those taken out with their descendants.
Present(n) ==
    /\ IF n <= NHost THEN host ELSE phase = "mounted"
    /\ n \notin gone
    /\ Nodes[n].parent # Null => Present(Nodes[n].parent)

HasAttr(n, a) == a \in DOMAIN Nodes[n].attrs

Attr(n, a) == Nodes[n].attrs[a]

Min(S) == CHOOSE m \in S : \A k \in S : m <= k

\* String.prototype.slice(1): the string without its first character.
Slice1(s) == SubSeq(s, 2, Len(s))

\* The attribute selector [href^="#"]: the value begins with "#".
StartsWithHash(s) == Len(s) >= 1 /\ SubSeq(s, 1, 1) = "#"

\* The selector a[href^="#"].
IsHashAnchor(n) ==
    /\ Nodes[n].tag = "a"
    /\ HasAttr(n, "href")
    /\ StartsWithHash(Attr(n, "href"))

RECURSIVE Closest(_)
\* Element.closest('a[href^="#"]'): the element itself or its nearest ancestor
\* that matches, or null.
Closest(n) ==
    IF n = Null THEN Null
    ELSE IF IsHashAnchor(n) THEN n
    ELSE Closest(Nodes[n].parent)

\* document.getElementById(id): the first element in document order whose id
\* is id; the empty string is nobody's id.
GetElementById(id) ==
    LET hits == {n \in NodeIds : Present(n) /\ HasAttr(n, "id") /\ Attr(n, "id") = id}
    IN  IF id = "" \/ hits = {} THEN Null ELSE Min(hits)

\* document.querySelector(sel) for an id selector "#<id>".
QuerySelector(sel) ==
    LET hits == {n \in NodeIds : Present(n) /\ HasAttr(n, "id")
                                   /\ StartsWithHash(sel) /\ Attr(n, "id") = Slice1(sel)}
    IN  IF hits = {} THEN Null ELSE Min(hits)

(* ---------------------------------------------------------------------- *)
(* What one event does                                                    *)
(* ---------------------------------------------------------------------- *)

\* The record of an event: its kind and inputs (target, Magnetic, pointer
\* position, rectangle read), the fragment before it, the offset its Magnetic
\* had before it, and the calls its handlers made.
Blank(kind) ==
    [kind |-> kind, target |-> Null, mag |-> 0, cx |-> 0, cy |-> 0,
     rect |-> [left |-> 0, top |-> 0, width |-> 0, height |-> 0],
     prevented |-> FALSE, scrolled |-> <<>>, replaced |-> <<>>,
     error |-> FALSE, before |-> hash, was |-> [x |-> 0, y |-> 0], hash |-> hash]

\* el.scrollIntoView(...): a call on null throws.
ScrollIntoView(el, o) ==
    IF el = Null THEN [o EXCEPT !.error = TRUE]
    ELSE [o EXCEPT !.scrolled = Append(@, el)]

\* history.replaceState(null, '', url): the fragment becomes url.
ReplaceState(url, o) == [o EXCEPT !.replaced = Append(@, url), !.hash = url]

\* The Magnetic instances: Nav's Contact, Hero's View Projects and Get in
\* touch, Contact's Email Me.
Mags == 1..4

(* ---------------------------------------------------------------------- *)
(* App: smooth hash navigation                                            *)
(* ---------------------------------------------------------------------- *)

\* onClick taking the document's first in-page anchor (document.querySelector)
\* where it should take the target's closest one.
onClickFirstAnchor(t, o) ==
    LET links == {n \in NodeIds : Present(n) /\ IsHashAnchor(n)}
    IN  IF t # Null /\ links # {}
        THEN LET link == Min(links)
                 id   == Slice1(Attr(link, "href"))
                 el   == GetElementById(id)
             IN  IF el # Null
                 THEN ReplaceState("#" \o id,
                          ScrollIntoView(el, [o EXCEPT !.prevented = TRUE]))
                 ELSE o
        ELSE o

\* onClick with the href taken whole as the id (slice(1) forgotten).
onClickNoSlice(t, o) ==
    IF t # Null /\ Closest(t) # Null
    THEN LET link == Closest(t)
             id   == Attr(link, "href")
             el   == GetElementById(id)
         IN  IF el # Null
             THEN ReplaceState("#" \o id,
                      ScrollIntoView(el, [o EXCEPT !.prevented = TRUE]))
             ELSE o
    ELSE o

\* onClick without its test of el.
onClickNoGuard(t, o) ==
    IF t # Null /\ Closest(t) # Null
    THEN LET link == Closest(t)
             id   == Slice1(Attr(link, "href"))
             el   == GetElementById(id)
         IN  ReplaceState("#" \o id,
                 ScrollIntoView(el, [o EXCEPT !.prevented = TRUE]))
    ELSE o

\* App's onClick for a click whose target is t.
onClick(t, o) ==
    IF t # Null /\ Closest(t) # Null
    THEN LET link == Closest(t)
             id   == Slice1(Attr(link, "href"))
             el   == GetElementById(id)
         IN  IF el # Null
             THEN ReplaceState("#" \o id,
                      ScrollIntoView(el, [o EXCEPT !.prevented = TRUE]))
             ELSE o
    ELSE o

RECURSIVE RunClickListeners(_, _, _)
\* The document's click listeners, each one App's onClick, run in turn.
RunClickListeners(k, t, o) ==
    IF k = 0 THEN o ELSE RunClickListeners(k - 1, t, onClick(t, o))

\* A Hero button's onClick:
\* document.querySelector(sel)?.scrollIntoView({ behavior: 'smooth' }).
HeroOnClick(sel, o) ==
    LET el == QuerySelector(sel)
    IN  IF el = Null THEN o ELSE ScrollIntoView(el, o)

RECURSIVE ReactOnClick(_, _)
\* The onClick props on the path from the target to the root, innermost first.
ReactOnClick(n, o) ==
    IF n = Null THEN o
    ELSE ReactOnClick(Nodes[n].parent,
             IF HasAttr(n, "onClick") THEN HeroOnClick(Attr(n, "onClick"), o) ELSE o)

\* A click on element t: React's handlers at the root, then the listeners
\* on document.
Click(t) ==
    /\ Present(t)
    /\ LET o == RunClickListeners(Len(docClick), t,
                    ReactOnClick(t, [Blank("click") EXCEPT !.target = t]))
       IN  /\ hash' = o.hash
           /\ ev' = o
    /\ UNCHANGED <<phase, host, gone, docClick, winMove, elMove, elLeave, appFn, spotFn,
                   magFn, hover, x, y, over, mouseX, mouseY, skillsDom,
                   projectsDom, scrollPos, revealed>>

(* ---------------------------------------------------------------------- *)
(* Magnetic                                                               *)
(* ---------------------------------------------------------------------- *)

\* relX * 0.15 with relX doubled: the offset numerator, in 1/200 px.
Factor == 15

\* The hover scale of a Magnetic's child, in percent: scale-[1.03] on Nav's
\* button, scale-[1.02] on the others.
NavScale == 103

ButtonScale == 102

HoverScale(m) == IF m = 1 THEN NavScale ELSE ButtonScale

Abs(i) == IF i < 0 THEN -i ELSE i

\* Twice relX = e.clientX - rect.left - rect.width / 2.
relX2(cx, rect) == 2 * cx - 2 * rect.left - rect.width

\* Twice relY = e.clientY - rect.top - rect.height / 2.
relY2(cy, rect) == 2 * cy - 2 * rect.top - rect.height

\* onMove measuring from the rectangle's corner (the half extent forgotten).
onMoveFromCorner(cx, cy, rect) ==
    [x |-> Factor * 2 * (cx - rect.left), y |-> Factor * 2 * (cy - rect.top)]

\* Magnetic.onMove: x.set(relX * 0.15), y.set(relY * 0.15).
onMove(cx, cy, rect) ==
    [x |-> Factor * relX2(cx, rect), y |-> Factor * relY2(cy, rect)]

\* onLeave resetting x alone.
onLeaveXOnly(off) == [off EXCEPT !.x = 0]

\* Magnetic.onLeave on the offset off: x.set(0), y.set(0).
onLeave(off) == [off EXCEPT !.x = 0, !.y = 0]

\* setHover on one flag shared by every instance.
setHoverShared(m, v) == [k \in Mags |-> v]

\* Instance m's setHover(v): const [hover, setHover] = useState(false).
setHover(m, v) == [hover EXCEPT ![m] = v]

\* onMouseEnter={() => setHover(true)}
onMouseEnter(m) == setHover(m, TRUE)

\* onMouseLeave={() => setHover(false)}
onMouseLeave(m) == setHover(m, FALSE)

\* The size of a Magnetic element, the places it is found at when a move
\* reads its rectangle, and the pointer positions of the events.
MagSize == [width |-> 200, height |-> 100]

MagRects ==
    { [left |-> l, top |-> 50, width |-> MagSize.width, height |-> MagSize.height] :
        l \in {100, 104} }

ClientXs == {97, 98, 200, 300}

ClientYs == {49, 100}

\* The pointer at (cx, cy) is on Magnetic m, whose element is at rect: on the
\* element's box, or on its child, which fills the box and, while hover
\* holds, is scaled about the box's centre.
PointerOn(m, cx, cy, rect) ==
    LET scale == IF hover[m] THEN HoverScale(m) ELSE 100
    IN  /\ 100 * Abs(relX2(cx, rect)) <= scale * rect.width
        /\ 100 * Abs(relY2(cy, rect)) <= scale * rect.height

(* ---------------------------------------------------------------------- *)
(* Spotlight                                                              *)
(* ---------------------------------------------------------------------- *)

\* ref.current?.getBoundingClientRect() of the fixed inset-0 container, as a
\* sequence of at most one rectangle: the viewport's corner, or where a host
\* page's containing block puts it; empty (undefined) once the container is
\* gone.
SpotRect ==
    IF phase # "mounted" THEN <<>>
    ELSE IF host THEN <<[left |-> 8, top |-> 4]>> ELSE <<[left |-> 0, top |-> 0]>>

\* handler taking the pointer's position as it comes (the container's corner
\* not subtracted).
handlerNoRect(cx, cy) ==
    IF SpotRect = <<>> THEN [x |-> mouseX, y |-> mouseY] ELSE [x |-> cx, y |-> cy]

\* Spotlight's handler for a move at (cx, cy): the new (mouseX, mouseY).
handler(cx, cy) ==
    LET rect == SpotRect
    IN  IF rect = <<>> THEN [x |-> mouseX, y |-> mouseY]
        ELSE [x |-> cx - rect[1].left, y |-> cy - rect[1].top]

(* ---------------------------------------------------------------------- *)
(* Pointer events                                                         *)
(* ---------------------------------------------------------------------- *)

\* The pointer comes onto Magnetic m: React's onMouseEnter.
PointerEnter(m) ==
    /\ phase = "mounted"
    /\ over = 0
    /\ over' = m
    /\ hover' = onMouseEnter(m)
    /\ ev' = [Blank("mouseenter") EXCEPT !.mag = m]
    /\ UNCHANGED <<phase, host, gone, docClick, winMove, elMove, elLeave, appFn, spotFn,
                   magFn, x, y, mouseX, mouseY, hash, skillsDom, projectsDom,
                   scrollPos, revealed>>

\* A mousemove at (cx, cy): on the Magnetic the pointer is over, found at
\* rect, the element's listeners run; the event then reaches window's.
PointerMove(cx, cy, rect) ==
    /\ over # 0 => PointerOn(over, cx, cy, rect)
    /\ LET off == onMove(cx, cy, rect)
           hit == over # 0 /\ elMove[over] # <<>>
       IN  /\ x' = IF hit THEN [x EXCEPT ![over] = off.x] ELSE x
           /\ y' = IF hit THEN [y EXCEPT ![over] = off.y] ELSE y
    /\ LET m == IF winMove # <<>> THEN handler(cx, cy) ELSE [x |-> mouseX, y |-> mouseY]
       IN  /\ mouseX' = m.x
           /\ mouseY' = m.y
    /\ ev' = [Blank("mousemove") EXCEPT !.mag = over, !.cx = cx, !.cy = cy,
                                        !.rect = rect]
    /\ UNCHANGED <<phase, host, gone, docClick, winMove, elMove, elLeave, appFn, spotFn,
                   magFn, hover, over, hash, skillsDom, projectsDom, scrollPos,
                   revealed>>

\* The pointer leaves Magnetic m: the element's mouseleave listeners and
\* React's onMouseLeave.
PointerLeave(m) ==
    /\ over = m
    /\ over' = 0
    /\ LET off == IF elLeave[m] # <<>> THEN onLeave([x |-> x[m], y |-> y[m]])
                  ELSE [x |-> x[m], y |-> y[m]]
       IN  /\ x' = [x EXCEPT ![m] = off.x]
           /\ y' = [y EXCEPT ![m] = off.y]
    /\ hover' = onMouseLeave(m)
    /\ ev' = [Blank("mouseleave") EXCEPT !.mag = m, !.was = [x |-> x[m], y |-> y[m]]]
    /\ UNCHANGED <<phase, host, gone, docClick, winMove, elMove, elLeave, appFn, spotFn,
                   magFn, mouseX, mouseY, hash, skillsDom, projectsDom, scrollPos,
                   revealed>>

(* ---------------------------------------------------------------------- *)
(* Static content and its rendering                                       *)
(* ---------------------------------------------------------------------- *)

skillGroups ==
    << [name |-> "Languages", items |-> <<"JavaScript (ES6+)", "TypeScript", "SQL", "Java">>],
       [name |-> "Frontend", items |-> <<"React.js", "Next.js", "HTML5", "CSS3">>],
       [name |-> "Backend", items |-> <<"Node.js", "Express.js">>],
       [name |-> "Mobile", items |-> <<"React Native", "Flutter">>],
       [name |-> "Databases", items |-> <<"MySQL", "PostgreSQL">>],
       [name |-> "IoT", items |-> <<"MQTT Protocol">>],
       [name |-> "Cloud & DevOps",
        items |-> <<"AWS (EC2, RDS, ECS, S3)", "Cloudflare (CDN & Security)", "CI/CD">>],
       [name |-> "Virtualization & Self-Hosting", items |-> <<"Proxmox VE">>],
       [name |-> "Networking",
        items |-> <<"pfSense, Captive Portal, DHCP, Routing", "Custom Network Design">>] >>

projects ==
    << [title |-> "Custom Network Infrastructure",
        tags |-> <<"pfSense", "Routing", "Firewall", "DHCP", "Security">>],
       [title |-> "Home Lab & Self-Hosting",
        tags |-> <<"Proxmox", "Virtualization", "Self-hosting", "DevOps">>] >>

\* <Badge>{children}</Badge> with the default tone: one span.
Badge(children) == [tag |-> "span", tone |-> "muted", children |-> children]

\* The items cut to three before the map.
SkillBadgesFirstThree(items) ==
    [j \in 1..(IF Len(items) > 3 THEN 3 ELSE Len(items)) |->
        [key |-> items[j], node |-> Badge(items[j])]]

\* group.items.map((item) => <Badge key={item}>{item}</Badge>)
SkillBadges(items) ==
    [j \in 1..Len(items) |-> [key |-> items[j], node |-> Badge(items[j])]]

\* skillGroups.map((group, i) => <motion.div key={group.name}> ... )
RenderSkills(groups) ==
    [i \in 1..Len(groups) |->
        [key |-> groups[i].name, heading |-> groups[i].name,
         badges |-> SkillBadges(groups[i].items)]]

\* The first tag rendered at every place of the list.
ProjectBadgesFirstTag(tags) ==
    [j \in 1..Len(tags) |-> [key |-> tags[1], node |-> Badge(tags[1])]]

\* p.tags.map((t) => <Badge key={t}>{t}</Badge>)
ProjectBadges(tags) ==
    [j \in 1..Len(tags) |-> [key |-> tags[j], node |-> Badge(tags[j])]]

\* projects.map((p, idx) => <motion.article key={p.title}> ... )
RenderProjects(ps) ==
    [i \in 1..Len(ps) |->
        [key |-> ps[i].title, heading |-> ps[i].title,
         badges |-> ProjectBadges(ps[i].tags)]]

(* ---------------------------------------------------------------------- *)
(* Scroll reveals                                                         *)
(* ---------------------------------------------------------------------- *)

\* Page rows the Hero takes, and rows the viewport shows.
HeroRows == 3

ViewRows == 4

Rv(row, margin) == [row |-> HeroRows + row, margin |-> margin, once |-> TRUE]

\* Every element with whileInView, with the page row it lies on, whether its
\* viewport option has the margin '-20% 0px -10% 0px', and its once option.
RevealTable ==
    << Rv(1, TRUE),  Rv(2, FALSE),  Rv(3, FALSE),          \* About: header
       Rv(4, FALSE), Rv(4, FALSE),                         \* About: two cards
       Rv(5, TRUE),  Rv(6, FALSE),                         \* Skills: header
       Rv(7, FALSE), Rv(7, FALSE), Rv(7, FALSE),           \* Skills: nine cards
       Rv(8, FALSE), Rv(8, FALSE), Rv(8, FALSE),
       Rv(9, FALSE), Rv(9, FALSE), Rv(9, FALSE),
       Rv(10, TRUE), Rv(11, FALSE), Rv(12, FALSE),         \* Experience: header
       Rv(13, FALSE), Rv(13, FALSE),                       \* Experience: two cards
       Rv(14, TRUE), Rv(15, FALSE), Rv(16, FALSE),         \* Projects: header
       Rv(17, FALSE), Rv(17, FALSE),                       \* Projects: two cards
       Rv(18, TRUE), Rv(19, FALSE), Rv(20, FALSE) >>       \* Contact: header

RevealIds == 1..Len(RevealTable)

MaxScroll == HeroRows + 21 - ViewRows

\* once only where the margin is given.
OnceWithMarginOnly(e) == RevealTable[e].margin

\* viewport={{ once: true }}
Once(e) == RevealTable[e].once

\* The element intersects the viewport scrolled to row s, shrunk by the
\* margin where the element asks for it.
InView(e, s) ==
    LET r      == RevealTable[e]
        top    == IF r.margin THEN (20 * ViewRows) \div 100 ELSE 0
        bottom == IF r.margin THEN (10 * ViewRows) \div 100 ELSE 0
    IN  s + 1 + top <= r.row /\ r.row <= s + ViewRows - bottom

\* whileInView after a frame at scroll position s: an element in view is
\* shown; one out of view keeps its state if it asked for once (it is no
\* longer observed) and returns to its initial state otherwise.
WhileInView(e, s) ==
    IF InView(e, s) THEN TRUE
    ELSE IF Once(e) THEN revealed[e]
    ELSE FALSE

\* One frame with the page scrolled to row s: the intersection observer
\* reports to every reveal element.
Frame(s) ==
    /\ phase = "mounted"
    /\ scrollPos' = s
    /\ revealed' = [e \in RevealIds |-> WhileInView(e, s)]
    /\ ev' = Blank("frame")
    /\ UNCHANGED <<phase, host, gone, docClick, winMove, elMove, elLeave, appFn, spotFn,
                   magFn, hover, x, y, over, mouseX, mouseY, hash, skillsDom,
                   projectsDom>>

(* ---------------------------------------------------------------------- *)
(* Effects: registering and removing the listeners                        *)
(* ---------------------------------------------------------------------- *)

\* A function object created now: different from every listener of the list.
NewFn(list) ==
    Min({k \in 1..(Len(list) + 1) : \A i \in 1..Len(list) : list[i] # k})

\* target.addEventListener(type, f): a listener already there is not added again.
AddEventListener(list, f) ==
    IF \E i \in 1..Len(list) : list[i] = f THEN list ELSE Append(list, f)

\* target.removeEventListener(type, f)
RemoveEventListener(list, f) == SelectSeq(list, LAMBDA g : g # f)

\* Magnetic's effect registering the mousemove listener alone.
MagneticEffectNoLeave(m, el) ==
    IF el = Null
    THEN [fn |-> magFn[m], move |-> elMove[m], leave |-> elLeave[m]]
    ELSE LET f == [onMove |-> NewFn(elMove[m]), onLeave |-> NewFn(elLeave[m])]
         IN  [fn    |-> f,
              move  |-> AddEventListener(elMove[m], f.onMove),
              leave |-> elLeave[m]]

\* Magnetic's effect for instance m, whose ref holds el.
MagneticEffect(m, el) ==
    IF el = Null
    THEN [fn |-> magFn[m], move |-> elMove[m], leave |-> elLeave[m]]
    ELSE LET f == [onMove |-> NewFn(elMove[m]), onLeave |-> NewFn(elLeave[m])]
         IN  [fn    |-> f,
              move  |-> AddEventListener(elMove[m], f.onMove),
              leave |-> AddEventListener(elLeave[m], f.onLeave)]

\* The cleanup Magnetic's effect returned.
MagneticCleanup(m) ==
    [move  |-> RemoveEventListener(elMove[m], magFn[m].onMove),
     leave |-> RemoveEventListener(elLeave[m], magFn[m].onLeave)]

\* Spotlight's effect.
SpotlightEffect ==
    LET f == NewFn(winMove) IN [fn |-> f, list |-> AddEventListener(winMove, f)]

\* A cleanup that removes a function made anew, not the one registered.
SpotlightCleanupNewFn == RemoveEventListener(winMove, NewFn(winMove))

\* The cleanup Spotlight's effect returned.
SpotlightCleanup == RemoveEventListener(winMove, spotFn)

\* App's effect.
AppEffect ==
    LET f == NewFn(docClick) IN [fn |-> f, list |-> AddEventListener(docClick, f)]

\* The cleanup App's effect returned.
AppCleanup == RemoveEventListener(docClick, appFn)

\* The element Magnetic m's ref holds when its effect runs: the wrapper it
\* rendered.
MagEl(m) == NHost + CASE m = 1 -> 8 [] m = 2 -> 11 [] m = 3 -> 14 [] OTHER -> 21

\* App is rendered and its effects run, children before parents.
Mount ==
    /\ phase = "unmounted"
    /\ phase' = "mounted"
    /\ hover' = [m \in Mags |-> FALSE]
    /\ x' = [m \in Mags |-> 0]
    /\ y' = [m \in Mags |-> 0]
    /\ mouseX' = 0
    /\ mouseY' = 0
    /\ over' = 0
    /\ skillsDom' = RenderSkills(skillGroups)
    /\ projectsDom' = RenderProjects(projects)
    /\ revealed' = [e \in RevealIds |-> FALSE]
    /\ magFn' = [m \in Mags |-> MagneticEffect(m, MagEl(m)).fn]
    /\ elMove' = [m \in Mags |-> MagneticEffect(m, MagEl(m)).move]
    /\ elLeave' = [m \in Mags |-> MagneticEffect(m, MagEl(m)).leave]
    /\ spotFn' = SpotlightEffect.fn
    /\ winMove' = SpotlightEffect.list
    /\ appFn' = AppEffect.fn
    /\ docClick' = AppEffect.list
    /\ ev' = Blank("mount")
    /\ UNCHANGED <<host, gone, hash, scrollPos>>

\* App's elements leave the document and its refs are cleared; the effects'
\* cleanups have not run yet.
Remove ==
    /\ phase = "mounted"
    /\ phase' = "removed"
    /\ over' = 0
    /\ skillsDom' = <<>>
    /\ projectsDom' = <<>>
    /\ scrollPos' = 0
    /\ ev' = Blank("remove")
    /\ UNCHANGED <<host, gone, docClick, winMove, elMove, elLeave, appFn, spotFn, magFn,
                   hover, x, y, mouseX, mouseY, hash, revealed>>

\* The cleanups of the effects run.
FlushCleanups ==
    /\ phase = "removed"
    /\ phase' = "unmounted"
    /\ elMove' = [m \in Mags |-> MagneticCleanup(m).move]
    /\ elLeave' = [m \in Mags |-> MagneticCleanup(m).leave]
    /\ winMove' = SpotlightCleanup
    /\ docClick' = AppCleanup
    /\ ev' = Blank("cleanup")
    /\ UNCHANGED <<host, gone, appFn, spotFn, magFn, hover, x, y, over, mouseX, mouseY,
                   hash, skillsDom, projectsDom, scrollPos, revealed>>

(* ---------------------------------------------------------------------- *)
(* Specifications                                                         *)
(* ---------------------------------------------------------------------- *)

Init ==
    /\ phase = "unmounted"
    /\ host \in BOOLEAN
    /\ gone = {}
    /\ docClick = <<>>
    /\ winMove = <<>>
    /\ elMove = [m \in Mags |-> <<>>]
    /\ elLeave = [m \in Mags |-> <<>>]
    /\ appFn = 0
    /\ spotFn = 0
    /\ magFn = [m \in Mags |-> [onMove |-> 0, onLeave |-> 0]]
    /\ hover = [m \in Mags |-> FALSE]
    /\ x = [m \in Mags |-> 0]
    /\ y = [m \in Mags |-> 0]
    /\ over = 0
    /\ mouseX = 0
    /\ mouseY = 0
    /\ hash = ""
    /\ skillsDom = <<>>
    /\ projectsDom = <<>>
    /\ scrollPos = 0
    /\ revealed = [e \in RevealIds |-> FALSE]
    /\ ev = Blank("none")

\* The page's events and lifecycle.
Next ==
    \/ Mount
    \/ Remove
    \/ FlushCleanups
    \/ \E t \in NodeIds : Click(t)
    \/ \E m \in Mags : PointerEnter(m)
    \/ \E cx \in ClientXs, cy \in ClientYs, rect \in MagRects : PointerMove(cx, cy, rect)
    \/ \E m \in Mags : PointerLeave(m)

Spec == Init /\ [][Next]_vars

\* The page's lifecycle and its scrolling.
NextReveal ==
    \/ Mount
    \/ Remove
    \/ FlushCleanups
    \/ \E s \in 0..MaxScroll : Frame(s)

SpecReveal == Init /\ [][NextReveal]_vars

\* Documents the click handlers may meet: the page as App renders it, and
\* the page with the Projects or the Contact section taken out.
Gones == { {}, {NHost + 19}, {NHost + 20} }

InitDoc ==
    /\ phase = "unmounted"
    /\ host \in BOOLEAN
    /\ gone \in Gones
    /\ docClick = <<>>
    /\ winMove = <<>>
    /\ elMove = [m \in Mags |-> <<>>]
    /\ elLeave = [m \in Mags |-> <<>>]
    /\ appFn = 0
    /\ spotFn = 0
    /\ magFn = [m \in Mags |-> [onMove |-> 0, onLeave |-> 0]]
    /\ hover = [m \in Mags |-> FALSE]
    /\ x = [m \in Mags |-> 0]
    /\ y = [m \in Mags |-> 0]
    /\ over = 0
    /\ mouseX = 0
    /\ mouseY = 0
    /\ hash = ""
    /\ skillsDom = <<>>
    /\ projectsDom = <<>>
    /\ scrollPos = 0
    /\ revealed = [e \in RevealIds |-> FALSE]
    /\ ev = Blank("none")

\* The page's lifecycle and its clicks.
NextDoc ==
    \/ Mount
    \/ Remove
    \/ FlushCleanups
    \/ \E t \in NodeIds : Click(t)

\* The click handlers over every document of Gones.
SpecDoc == InitDoc /\ [][NextDoc]_vars

(* ---------------------------------------------------------------------- *)
(* Properties                                                             *)
(* ---------------------------------------------------------------------- *)

\* The elements of the document whose id, after a "#", reads href.
Named(href) ==
    {n \in NodeIds : Present(n) /\ HasAttr(n, "id") /\ ("#" \o Attr(n, "id")) = href}

\* The in-page anchor the last click was inside of, or Null.
ClickedLink == IF ev.kind = "click" THEN Closest(ev.target) ELSE Null

\* The Hero buttons the last click was inside of.
ClickedButtons ==
    {b \in NodeIds : /\ ev.kind = "click"
                     /\ HasAttr(b, "onClick")
                     /\ b \in {ev.target, Nodes[ev.target].parent}}

\* C1: while App's click listener is registered, a click inside an anchor
\* with href "#<id>", where an element with that id is in the document,
\* prevents the default, scrolls to one element, whose id is <id>, and
\* leaves the URL fragment equal to "#<id>": after every such click the
\* fragment is the href of the anchor last clicked.
HashNavScrollsAndSetsFragment ==
    (docClick # <<>> /\ ClickedLink # Null /\ Named(Attr(ClickedLink, "href")) # {})
        => /\ ev.prevented
           /\ \E el \in Named(Attr(ClickedLink, "href")) : ev.scrolled = <<el>>
           /\ ev.replaced = <<Attr(ClickedLink, "href")>>
           /\ hash = Attr(ClickedLink, "href")
           /\ ~ev.error

\* C1's case: after a click that set the fragment to "#about", a click on
\* Nav's Projects link scrolled to the Projects section.
HashNavWitness ==
    /\ ev.kind = "click"
    /\ ev.target = NHost + 6
    /\ ev.before = "#about"
    /\ ev.prevented
    /\ ev.scrolled = <<NHost + 19>>
    /\ hash = "#projects"

\* C2: a click inside an in-page anchor whose href names no element's id
\* ("#" included) makes the handler do nothing: no scroll, no replaceState,
\* no preventDefault, no error, the fragment as before; and a click on a
\* Hero button whose section is not in the document does nothing either.
MissingTargetIsNoOp ==
    /\ (ClickedLink # Null /\ Named(Attr(ClickedLink, "href")) = {})
          => /\ ev.scrolled = <<>>
             /\ ev.replaced = <<>>
             /\ ~ev.prevented
             /\ ~ev.error
             /\ hash = ev.before
    /\ \A b \in ClickedButtons :
          Named(Attr(b, "onClick")) = {}
             => /\ ev.scrolled = <<>>
                /\ ev.replaced = <<>>
                /\ ~ev.prevented
                /\ ~ev.error
                /\ hash = ev.before

\* C2's case: with the fragment at "#about" and the listener registered, a
\* click on Nav's Projects link while the Projects section is not in the
\* document.
MissingTargetWitness ==
    /\ ev.kind = "click"
    /\ docClick # <<>>
    /\ ev.target = NHost + 6
    /\ Named("#projects") = {}
    /\ ev.before = "#about"

\* C3 as stated: in every state the magnitude of each Magnetic offset is at
\* most 0.15 times half the element's extent on its axis.
OffsetWithinHalfExtent ==
    \A m \in Mags : /\ Abs(x[m]) <= 15 * MagSize.width
                    /\ Abs(y[m]) <= 15 * MagSize.height

\* C3, amended: after a move over a Magnetic element, its offset on each
\* axis is 0.15 times the pointer's displacement from the centre of the
\* rectangle the move read (x / 200 = 3/20 * (clientX - left - width / 2));
\* and in every state the magnitude of each offset is at most 0.15 times
\* half the element's extent times the hover scale of its child.
OffsetIsScaledDisplacement ==
    /\ (ev.kind = "mousemove" /\ ev.mag # 0 /\ elMove[ev.mag] # <<>>)
          => /\ 20 * x[ev.mag] = 600 * (ev.cx - ev.rect.left) - 300 * ev.rect.width
             /\ 20 * y[ev.mag] = 600 * (ev.cy - ev.rect.top) - 300 * ev.rect.height
    /\ \A m \in Mags : /\ 100 * Abs(x[m]) <= 15 * HoverScale(m) * MagSize.width
                       /\ 100 * Abs(y[m]) <= 15 * HoverScale(m) * MagSize.height

\* C3's case: a move over Nav's Magnetic with the pointer on the part of the
\* scaled button that overhangs the element's rectangle, left of it and
\* above it.
OffsetWitness ==
    /\ ev.kind = "mousemove"
    /\ ev.mag = 1
    /\ ev.cx < ev.rect.left
    /\ ev.cy < ev.rect.top
    /\ x[1] = -3090
    /\ y[1] = -1530

\* C4: after a pointer leave the Magnetic's offset is (0, 0) and its hover
\* flag false, and an offset of (0, 0) stays (0, 0) through every step but
\* a move over that element.
LeaveResetsOffset ==
    [][\A m \in Mags :
          /\ (ev'.kind = "mouseleave" /\ ev'.mag = m)
                => (x'[m] = 0 /\ y'[m] = 0 /\ ~hover'[m])
          /\ (x[m] = 0 /\ y[m] = 0 /\ ~(ev'.kind = "mousemove" /\ ev'.mag = m))
                => (x'[m] = 0 /\ y'[m] = 0)]_vars

\* C4's case: the pointer has left a Magnetic whose offset was not zero on
\* either axis.
LeaveWitness ==
    /\ ev.kind = "mouseleave"
    /\ ev.was.x # 0
    /\ ev.was.y # 0
    /\ x[ev.mag] = 0
    /\ y[ev.mag] = 0
    /\ ~hover[ev.mag]

\* C5: a reveal element is hidden when rendered, is shown after every frame
\* that finds it in the viewport, becomes shown only in a frame that finds
\* it in the viewport, and once shown stays shown, in view or out of it,
\* for as long as it exists.
RevealFiresOnce ==
    [][\A e \in RevealIds :
          /\ ev'.kind = "mount" => ~revealed'[e]
          /\ (ev'.kind = "frame" /\ InView(e, scrollPos')) => revealed'[e]
          /\ (~revealed[e] /\ revealed'[e]) => (ev'.kind = "frame" /\ InView(e, scrollPos'))
          /\ (revealed[e] /\ ev'.kind # "mount") => revealed'[e]]_vars

\* C5's case: after a frame, a card that was revealed is out of the
\* viewport and still revealed, while an element further down is in view.
RevealWitness ==
    /\ ev.kind = "frame"
    /\ revealed[4] /\ ~InView(4, scrollPos)
    /\ revealed[1] /\ ~InView(1, scrollPos)
    /\ InView(20, scrollPos)

\* C6: while App is mounted, document has exactly one click listener,
\* window exactly one mousemove listener and every Magnetic element exactly
\* one mousemove and one mouseleave listener, each the function its
\* component's effect registered; once the cleanups have run no listener is
\* left.
ListenersMatchMounts ==
    /\ phase = "mounted"
          => /\ docClick = <<appFn>>
             /\ winMove = <<spotFn>>
             /\ \A m \in Mags : /\ elMove[m] = <<magFn[m].onMove>>
                                /\ elLeave[m] = <<magFn[m].onLeave>>
    /\ phase = "unmounted"
          => /\ docClick = <<>>
             /\ winMove = <<>>
             /\ \A m \in Mags : elMove[m] = <<>> /\ elLeave[m] = <<>>

\* C6's case: App has been mounted and unmounted, and its cleanups have run.
ListenersWitness ==
    /\ phase = "unmounted"
    /\ ev.kind = "cleanup"
    /\ appFn # 0 /\ spotFn # 0
    /\ \A m \in Mags : magFn[m].onMove # 0 /\ magFn[m].onLeave # 0

\* C7: the skill cards are the skill groups in order, and the badges of each
\* card are the group's items: as many, the same, in the same order.
SkillsRenderItemsInOrder ==
    phase = "mounted"
        => /\ Len(skillsDom) = Len(skillGroups)
           /\ \A i \in 1..Len(skillGroups) :
                 /\ skillsDom[i].heading = skillGroups[i].name
                 /\ Len(skillsDom[i].badges) = Len(skillGroups[i].items)
                 /\ \A j \in 1..Len(skillGroups[i].items) :
                       /\ skillsDom[i].badges[j].node.tag = "span"
                       /\ skillsDom[i].badges[j].node.children = skillGroups[i].items[j]

\* C7's case: Skills is rendered, with its first card's four badges and its
\* last card's two.
SkillsWitness ==
    /\ phase = "mounted"
    /\ Len(skillsDom) = 9
    /\ Len(skillsDom[1].badges) = 4
    /\ skillsDom[1].badges[4].node.children = "Java"
    /\ skillsDom[9].badges[2].node.children = "Custom Network Design"

\* C8: the badges of each project card are the project's tags, each tag
\* once, and no badge is a tag of another project.
ProjectsRenderTagsOnce ==
    phase = "mounted"
        => /\ Len(projectsDom) = Len(projects)
           /\ \A i \in 1..Len(projects) :
                 /\ projectsDom[i].heading = projects[i].title
                 /\ \A j \in 1..Len(projects[i].tags) :
                       Cardinality({k \in 1..Len(projectsDom[i].badges) :
                           projectsDom[i].badges[k].node.children = projects[i].tags[j]}) = 1
                 /\ \A k \in 1..Len(projectsDom[i].badges) :
                       /\ \E j \in 1..Len(projects[i].tags) :
                             projectsDom[i].badges[k].node.children = projects[i].tags[j]
                       /\ \A i2 \in 1..Len(projects) : \A j \in 1..Len(projects[i2].tags) :
                             (i2 # i) => projectsDom[i].badges[k].node.children # projects[i2].tags[j]

\* C8's case: Projects is rendered, with five badges on its first card and
\* four on its second.
ProjectsWitness ==
    /\ phase = "mounted"
    /\ Len(projectsDom) = 2
    /\ Len(projectsDom[1].badges) = 5
    /\ Len(projectsDom[2].badges) = 4
    /\ projectsDom[2].badges[4].node.children = "DevOps"

\* C9: a move while Spotlight's listener is registered and its container is
\* there leaves (mouseX, mouseY) equal to the pointer's position less the
\* container's corner, whatever they were; a move that finds no container,
\* or no listener, leaves them as they were.
SpotlightFollowsPointer ==
    [][ev'.kind = "mousemove"
          => IF winMove # <<>> /\ SpotRect # <<>>
             THEN /\ mouseX' = ev'.cx - SpotRect[1].left
                  /\ mouseY' = ev'.cy - SpotRect[1].top
             ELSE UNCHANGED <<mouseX, mouseY>>]_vars

\* C9's case: with the listener registered and a container whose corner is
\* not the viewport's, a move at (300, 49).
SpotlightWitness ==
    /\ ev.kind = "mousemove"
    /\ phase = "mounted"
    /\ host
    /\ ev.cx = 300 /\ ev.cy = 49
    /\ mouseX = 292 /\ mouseY = 45

\* An event of the pointer on Magnetic m has just happened.
MagneticEvent(m) ==
    /\ ev'.kind \in {"mouseenter", "mousemove", "mouseleave"}
    /\ ev'.mag = m

\* C10 as stated: a move, enter or leave on one Magnetic leaves every other
\* Magnetic's offset and hover flag, the Spotlight coordinates and the URL
\* fragment unchanged.
MagneticEventTouchesNothingElse ==
    [][\A m \in Mags : MagneticEvent(m)
          => /\ \A k \in Mags \ {m} : x'[k] = x[k] /\ y'[k] = y[k] /\ hover'[k] = hover[k]
             /\ UNCHANGED <<mouseX, mouseY, hash>>]_vars

\* C10, amended: a move, enter or leave on one Magnetic leaves every other
\* Magnetic's offset and hover flag and the URL fragment unchanged; an
\* enter or a leave leaves the Spotlight coordinates unchanged too, while a
\* move, which goes on to window, leaves them where Spotlight's own
\* listener puts them for any move: at the pointer.
MagneticEventTouchesOwnState ==
    [][\A m \in Mags : MagneticEvent(m)
          => /\ \A k \in Mags \ {m} : x'[k] = x[k] /\ y'[k] = y[k] /\ hover'[k] = hover[k]
             /\ UNCHANGED hash
             /\ ev'.kind # "mousemove" => UNCHANGED <<mouseX, mouseY>>
             /\ ev'.kind = "mousemove"
                   => /\ mouseX' = ev'.cx - SpotRect[1].left
                      /\ mouseY' = ev'.cy - SpotRect[1].top]_vars

\* C10's case: a move over Hero's second Magnetic, with the fragment set,
\* has given it an offset and moved the Spotlight.
MagneticEventWitness ==
    /\ ev.kind = "mousemove"
    /\ ev.mag = 3
    /\ x[3] # 0 /\ y[3] # 0
    /\ hash = "#skills"
    /\ mouseX = ev.cx - SpotRect[1].left
    /\ mouseX # 0

RECURSIVE AncestorsOrSelf(_)
\* An element with its ancestors.
AncestorsOrSelf(n) ==
    IF n = Null THEN {} ELSE {n} \cup AncestorsOrSelf(Nodes[n].parent)

\* The last click was inside no anchor whose href begins with "#".
ClickedOutsideLinks ==
    /\ ev.kind = "click"
    /\ \A a \in AncestorsOrSelf(ev.target) :
          ~(/\ Nodes[a].tag = "a"
            /\ "href" \in DOMAIN Nodes[a].attrs
            /\ Len(Nodes[a].attrs.href) >= 1
            /\ SubSeq(Nodes[a].attrs.href, 1, 1) = "#")

\* C11: a click inside no anchor whose href begins with "#" (a button, the
\* mailto link, the external links, any other element) is not prevented,
\* makes no replaceState call and leaves the fragment as it was; the only
\* scroll of such a click is the one a Hero button's own onClick makes, to
\* the element its selector names.
OnlyHashLinksIntercepted ==
    ClickedOutsideLinks
        => /\ ~ev.prevented
           /\ ev.replaced = <<>>
           /\ hash = ev.before
           /\ ~ev.error
           /\ IF ClickedButtons = {} THEN ev.scrolled = <<>>
              ELSE \A b \in ClickedButtons :
                      \E el \in Named(Attr(b, "onClick")) : ev.scrolled = <<el>>

\* C11's case: with the listener registered and the fragment at "#about",
\* a click on the icon inside Hero's View Projects button has scrolled to
\* the Projects section and left the fragment alone.
OnlyHashLinksWitness ==
    /\ ev.kind = "click"
    /\ docClick # <<>>
    /\ ev.target = NHost + 13
    /\ ev.before = "#about"
    /\ hash = "#about"
    /\ ev.scrolled = <<NHost + 19>>

\* The elements rendered by App whose id a fragment or selector names.
AppNamed(href) == {n \in Named(href) : n > NHost}

\* The in-page anchors and the buttons with a selector that App renders.
AppLinks == {n \in NodeIds : n > NHost /\ Present(n) /\ IsHashAnchor(n)}
AppButtons == {n \in NodeIds : n > NHost /\ Present(n) /\ HasAttr(n, "onClick")}

\* C12: while App is mounted, the href of each in-page anchor it renders and
\* the selector of each Hero button name the id of exactly one element App
\* renders; a click inside one of those anchors, with the listener
\* registered, is prevented, scrolls to an element with that id (App's own
\* section unless the page outside App's root repeats the id) and sets the
\* fragment; a click on a Hero button scrolls to its section without error.
OwnLinksHaveTargets ==
    phase = "mounted"
        => /\ \A n \in AppLinks : Cardinality(AppNamed(Attr(n, "href"))) = 1
           /\ \A b \in AppButtons : Cardinality(AppNamed(Attr(b, "onClick"))) = 1
           /\ (ev.kind = "click" /\ docClick # <<>> /\ ClickedLink \in AppLinks)
                 => LET href == Attr(ClickedLink, "href")
                    IN  /\ ev.prevented
                        /\ ~ev.error
                        /\ \E el \in Named(href) : ev.scrolled = <<el>>
                        /\ Named(href) = AppNamed(href)
                              => \E el \in AppNamed(href) : ev.scrolled = <<el>>
                        /\ hash = href
           /\ \A b \in ClickedButtons \cap AppButtons :
                 /\ ~ev.error
                 /\ \E el \in AppNamed(Attr(b, "onClick")) : ev.scrolled = <<el>>

\* C12's case: with nothing outside App's root, a click on Nav's Contact
\* anchor has scrolled to the Contact section and set the fragment, and
\* before it the fragment was another section's.
OwnLinksWitness ==
    /\ phase = "mounted"
    /\ ~host
    /\ ev.kind = "click"
    /\ ev.target = NHost + 7
    /\ ev.before = "#projects"
    /\ ev.prevented
    /\ ev.scrolled = <<NHost + 20>>
    /\ hash = "#contact"

\* C13: in every state, a Magnetic whose hover flag is false has the offset
\* (0, 0): the offset is other than zero only while the pointer is over the
\* element.
IdleMagneticAtRest ==
    \A m \in Mags : ~hover[m] => (x[m] = 0 /\ y[m] = 0)

\* C13's case: the pointer entered the Contact section's Magnetic, moved it
\* off zero and has left it, and now no Magnetic is hovered and every offset
\* is (0, 0).
IdleMagneticWitness ==
    /\ phase = "mounted"
    /\ ev.kind = "mouseleave"
    /\ ev.mag = 4
    /\ ev.was.x # 0
    /\ \A m \in Mags : ~hover[m] /\ x[m] = 0 /\ y[m] = 0

====
